---- MODULE Spec2Model ----
(***************************************************************************)
(* Model of the shophub-shell repository.  The main specification, Spec,   *)
(* is the dev orchestrator (scripts/dev-all.mjs); the smaller units of the *)
(* repository have specifications of their own further down, each over    *)
(* its own group of variables.                                             *)
(*                                                                         *)
(* The script is one Node.js event loop.  Code between two awaits runs     *)
(* to completion, so every action below is one such run: the resumption    *)
(* of the top-level module after an await, or one event handler (child     *)
(* 'exit', SIGINT, SIGTERM).  process.exit() ends the process inside the   *)
(* action that calls it; nothing runs after it.                            *)
(***************************************************************************)
EXTENDS Integers, Sequences, FiniteSets, TLC

\* ---------------------------------------------------------------- bounds
NumServices == 2          \* descriptors in `services` (dev-services.mjs)
MaxQuietExits == 1        \* children that may end with code 0 or by a signal
MaxHarnessCalls == 3      \* calls made by the unit harness of shutdown
MaxText == 3              \* characters a child writes to its output streams
MaxTicks == 3             \* clock steps followed in one browser session
MaxReloads == 3           \* reloads recorded in one browser session
NumRemotes == 2           \* remote names passed to initContainerOnce
MaxCalls == 3             \* calls of initContainerOnce on one page
MaxClicks == 2            \* clicks that start triggerChunkLoadFailure
MaxOps == 2               \* wishlist calls made by the page
MaxChunks == 2            \* chunks in which a request body arrives

\* ------------------------------------------------------ program constants
TimeoutMs == 60000        \* waitForHttpOk default timeoutMs
IntervalMs == 250         \* waitForHttpOk default intervalMs
ReqTimeoutMs == 5000      \* per-request socket timeout
RELOAD_GUARD_TTL_MS == 600000   \* 10 * 60 * 1000
TickMs == 300000          \* granularity of the browser clock
CHUNK_RETRY_LIMIT == 3    \* Navbar.jsx: retries of importWithRetry
MaxBytes == 1000000       \* server.mjs: readJsonBody default maxBytes
Null == 0 - 1             \* JS null / undefined for a numeric field
Shell == 0                \* descriptor id of the shell (primary) service

Services == 1..NumServices
Descriptors == {Shell} \cup Services

\* Values the environment may produce.
PortOf(d) == 5173 + d                   \* a distinct non-zero port per descriptor
ChildCodes == {0, 3, Null}              \* exit code; Null = killed by a signal
Statuses == {199, 200, 399, 400}        \* HTTP status codes around the range
Latencies == {0, 2500}                  \* time a response or error takes
Lateness == {0}                         \* how late the sleep timer fires
NoOutcome == 0 - 2
ErrOutcome == 0 - 3                     \* request 'error' event
TimeoutOutcome == 0 - 4                 \* request 'timeout' event

VARIABLES
    pc,             \* where the top-level module is suspended
    readyUrl,       \* readyUrl[s]: descriptor s declares a readyUrl
    requiredPorts,  \* ports of requiredPorts not yet probed by the preflight loop
    inUse,          \* the inUse array
    reported,       \* ports written by the "Ports already in use" message
    children,       \* the children array, one record per spawned process
    isShuttingDown, \* the isShuttingDown flag
    shutdownCalls,  \* number of calls of shutdown()
    cur,            \* descriptor whose waitForHttpOk is in progress (0: none)
    elapsed,        \* Date.now() - start of the wait in progress
    lastProbe,      \* outcome of the last completed probe of the wait
    probed,         \* descriptors for which a probe request was issued
    ready,          \* descriptors whose waitForHttpOk returned true
    failed,         \* descriptors whose waitForHttpOk threw the timeout error
    quietExits,     \* children that ended without stopping the orchestrator
    exitCode,       \* argument of process.exit (Null while running)
    exitReason,     \* which process.exit call ended the run
    \* preflight environment, followed by SpecPreflight only
    cfgPort,        \* cfgPort[d]: the port field of descriptor d
    listening,      \* ports on 127.0.0.1 that accept a TCP connect
    \* output of one child, followed by SpecPrefix only
    sent,           \* sent[st]: characters the child wrote to stream st
    written,        \* written[st]: characters the orchestrator wrote for st
    \* one browser session of the shell page, followed by SpecChunk only
    guardItem,      \* sessionStorage value under RELOAD_GUARD_KEY (Null: absent)
    clock,          \* Date.now(), from the start of the session
    readThrows,     \* sessionStorage.getItem throws
    writeThrows,    \* sessionStorage.setItem throws
    installed,      \* the page is loaded and its listeners are installed
    reloads,        \* times of the calls of window.location.reload()
    \* Module Federation helpers on one page, followed by SpecMf only
    mfRuntime,              \* isMfRuntimeAvailable()
    nextPromise,            \* promises created so far; a promise is its number
    containerInitPromises,  \* the Map: remote name -> init promise (0: no entry)
    initState,              \* initState[p]: remote and state of init promise p
    initCalls,              \* initCalls[r]: calls of container.init for remote r
    received,               \* what each call of initContainerOnce returned
    \* the attempt tracker singleton on one page, followed by SpecTracker only
    nodeEnv,          \* globalThis?.process?.env?.NODE_ENV when the bundle runs
    storageMode,      \* window.localStorage: "ok", "missing" or "throws"
    storedFailMode,   \* localStorage item 'ecommerce_fail_mode'
    constructed,      \* new AttemptTracker() has run
    failModeEnabled,  \* this.failModeEnabled
    lastReturn,       \* value returned by the last toggleFailMode / setFailMode
    lastClick,        \* what maybeInjectLogicalError did with the last navbar click
    \* the navbar's deferred import, followed by SpecRetry only
    chains,           \* one record per call of triggerChunkLoadFailure
    \* one mounted WishlistProvider, followed by SpecWishlist only
    provider,         \* record: React state, update queue, effects, localStorage item
    \* the mock API serving one request at a time, followed by SpecEcho only
    echo              \* record: the request, readJsonBody's progress, the response

orchVars == <<pc, readyUrl, requiredPorts, inUse, reported, children, isShuttingDown,
              shutdownCalls, cur, elapsed, lastProbe, probed, ready, failed,
              quietExits, exitCode, exitReason>>
preVars == <<cfgPort, listening>>
prefixVars == <<sent, written>>
chunkVars == <<guardItem, clock, readThrows, writeThrows, installed, reloads>>
mfVars == <<mfRuntime, nextPromise, containerInitPromises, initState, initCalls, received>>
trackerVars == <<nodeEnv, storageMode, storedFailMode, constructed, failModeEnabled,
                 lastReturn, lastClick>>
retryVars == <<chains>>
wishVars == <<provider>>
echoVars == <<echo>>
auxVars == <<preVars, prefixVars, chunkVars, mfVars, trackerVars, retryVars, wishVars, echoVars>>
vars == <<orchVars, auxVars>>

\* A group of variables that the specification at hand does not follow.
PreIdle == cfgPort = <<>> /\ listening = {}
Streams == {"stdout", "stderr"}
PrefixIdle == sent = [st \in Streams |-> <<>>] /\ written = [st \in Streams |-> <<>>]
ChunkIdle ==
    /\ guardItem = Null
    /\ clock = 0
    /\ readThrows = FALSE
    /\ writeThrows = FALSE
    /\ installed = FALSE
    /\ reloads = <<>>
Remotes == 1..NumRemotes
MfIdle ==
    /\ mfRuntime = FALSE
    /\ nextPromise = 0
    /\ containerInitPromises = [r \in Remotes |-> 0]
    /\ initState = <<>>
    /\ initCalls = [r \in Remotes |-> 0]
    /\ received = <<>>
TrackerIdle ==
    /\ nodeEnv = "undefined"
    /\ storageMode = "missing"
    /\ storedFailMode = "absent"
    /\ constructed = FALSE
    /\ failModeEnabled = FALSE
    /\ lastReturn = "none"
    /\ lastClick = "none"
RetryIdle == chains = <<>>
WishIdle == provider = [pc |-> "absent"]
EchoIdle == echo = [pc |-> "off"]
AuxIdle == PreIdle /\ PrefixIdle /\ ChunkIdle /\ MfIdle /\ TrackerIdle /\ RetryIdle /\ WishIdle /\ EchoIdle

\* The orchestrator script is not running.
OrchIdle ==
    /\ pc = "off"
    /\ readyUrl = [s \in Services |-> FALSE]
    /\ requiredPorts = <<>>
    /\ inUse = <<>>
    /\ reported = <<>>
    /\ children = <<>>
    /\ isShuttingDown = FALSE
    /\ shutdownCalls = 0
    /\ cur = 0
    /\ elapsed = 0
    /\ lastProbe = NoOutcome
    /\ probed = {}
    /\ ready = {}
    /\ failed = {}
    /\ quietExits = 0
    /\ exitCode = Null
    /\ exitReason = "none"

\* ------------------------------------------------------------ pure helpers

\* requiredPorts: shell port first, then the numeric service ports, then
\* .filter(Boolean) drops undefined and 0.
RECURSIVE ServicePorts(_, _)
ServicePorts(port, s) ==
    IF s > NumServices THEN <<>>
    ELSE (IF port[s] # Null THEN <<port[s]>> ELSE <<>>) \o ServicePorts(port, s + 1)

Truthy(n) == n # Null /\ n # 0

\* mutant: the shell port is left out of requiredPorts
RequiredPortsNoShell(port) == SelectSeq(ServicePorts(port, 1), Truthy)

RequiredPorts(port) ==
    SelectSeq(<<port[Shell]>> \o ServicePorts(port, 1), Truthy)

\* mutant: the upper end of the ready range is inclusive
IsOkUpTo400(status) == Truthy(status) /\ status >= 200 /\ status <= 400

\* res.statusCode && res.statusCode >= 200 && res.statusCode < 400
IsOk(status) == Truthy(status) /\ status >= 200 /\ status < 400

\* mutant: the conflict test is off by one
HasConflictsOffByOne(used) == Len(used) > 1

\* if (inUse.length)
HasConflicts(used) == Len(used) # 0

\* mutant: the deadline test is not strict
TimedOutAtDeadline(e) == e >= TimeoutMs

\* mutant: the deadline test forgets to subtract start from Date.now()
TimedOutNoStart(e) == e + 1000000000 > TimeoutMs

\* Date.now() - start > timeoutMs
TimedOut(e) == e > TimeoutMs

\* startService: spawn and children.push(child)
startService(ch, d) ==
    Append(ch, [svc |-> d, alive |-> TRUE, code |-> Null, kills |-> 0])

\* mutant: the start loop also starts the shell
RECURSIVE StartAllInclShell(_, _)
StartAllInclShell(ch, s) ==
    IF s > NumServices THEN startService(ch, Shell)
    ELSE StartAllInclShell(startService(ch, s), s + 1)

\* mutant: the start loop stops after its first descriptor
StartOnlyFirst(ch, s) == startService(ch, s)

\* for (const s of servicesToStart) startService(s)
RECURSIVE StartAll(_, _)
StartAll(ch, s) ==
    IF s > NumServices THEN ch ELSE StartAll(startService(ch, s), s + 1)

\* mutant: the kill loop misses the first tracked child
KillAllButFirst(ch) ==
    [i \in DOMAIN ch |-> IF i = 1 THEN ch[i] ELSE [ch[i] EXCEPT !.kills = @ + 1]]

\* the loop of shutdown(): child.kill('SIGINT') for every tracked child
KillAll(ch) == [i \in DOMAIN ch |-> [ch[i] EXCEPT !.kills = @ + 1]]

\* mutant: the flag test is not negated
ExitIsFatalFlagInverted(flag, code) == flag /\ Truthy(code) /\ code # 0

\* exit handler condition: !isShuttingDown && code && code !== 0
ExitIsFatal(flag, code) == ~flag /\ Truthy(code) /\ code # 0

\* mutant: the readiness loop breaks at a descriptor without readyUrl
NextWaitBreak(url, s) ==
    IF s > NumServices THEN 0 ELSE IF url[s] THEN s ELSE 0

\* mutant: the readiness loop waits for every descriptor
NextWaitAll(url, s) ==
    IF s > NumServices THEN 0 ELSE s

\* next descriptor at or after s for which the readiness loop does not `continue`
RECURSIVE NextWait(_, _)
NextWait(url, s) ==
    IF s > NumServices THEN 0
    ELSE IF url[s] THEN s ELSE NextWait(url, s + 1)

Tracked(ch) == {ch[i].svc : i \in DOMAIN ch}

\* ------------------------------------------------------------------- Init
\* The module is suspended at `await import(servicesConfigPath)`; the
\* descriptors (ports, readyUrl) are static data chosen here.
Init ==
    /\ pc = "import"
    /\ readyUrl \in [Services -> BOOLEAN]
    /\ \E port \in [Descriptors -> {Null, 0, 1}] :
          requiredPorts = RequiredPorts([d \in Descriptors |->
                              IF port[d] = 1 THEN PortOf(d) ELSE port[d]])
    /\ inUse = <<>>
    /\ reported = <<>>
    /\ children = <<>>
    /\ isShuttingDown = FALSE
    /\ shutdownCalls = 0
    /\ cur = 0
    /\ elapsed = 0
    /\ lastProbe = NoOutcome
    /\ probed = {}
    /\ ready = {}
    /\ failed = {}
    /\ quietExits = 0
    /\ exitCode = Null
    /\ exitReason = "none"
    /\ AuxIdle

\* ------------------------------------------------- fragments of the script

\* shutdown(reason): sets the flag, then signals every tracked child
shutdown(ch) ==
    /\ isShuttingDown' = TRUE
    /\ shutdownCalls' = shutdownCalls + 1
    /\ children' = KillAll(ch)

\* mutant: process.exit is missing after shutdown
ShutdownNoExit(ch, code, why) ==
    /\ shutdown(ch)
    /\ UNCHANGED <<exitCode, exitReason, pc>>

\* shutdown(reason); process.exit(code)
ShutdownAndExit(ch, code, why) ==
    /\ shutdown(ch)
    /\ exitCode' = code
    /\ exitReason' = why
    /\ pc' = "exited"

\* waitForHttpOk(url) up to its first await: start = Date.now(), request sent
BeginWait(s) ==
    /\ cur' = s
    /\ elapsed' = 0
    /\ probed' = probed \cup {s}
    /\ pc' = "probing"

\* The readiness loop from descriptor s on, then the shell start: runs until
\* the next await (a probe in flight) or to the end of the module.
ReadinessLoop(ch, s) ==
    LET n == NextWait(readyUrl, s) IN
    IF n # 0
    THEN /\ BeginWait(n)
         /\ children' = ch
    ELSE /\ children' = startService(ch, Shell)
         /\ cur' = 0
         /\ pc' = "running"
         /\ UNCHANGED <<elapsed, probed>>

\* mutant: the catch handler only logs, the readiness loop goes on
ReadinessCatchContinue(ch, e) ==
    /\ ReadinessLoop(ch, cur + 1)
    /\ UNCHANGED <<isShuttingDown, shutdownCalls, exitCode, exitReason>>

\* .catch of the readiness loop: shutdown('service not reachable'); process.exit(1)
ReadinessCatch(ch, e) ==
    /\ elapsed' = e
    /\ ShutdownAndExit(ch, 1, "readiness")
    /\ UNCHANGED <<cur, probed>>

\* After the preflight loop: abort on conflicts, else start every service
\* and enter the readiness loop.
AfterPreflight(used) ==
    IF HasConflicts(used)
    THEN /\ reported' = used
         /\ exitCode' = 1
         /\ exitReason' = "ports"
         /\ pc' = "exited"
         /\ UNCHANGED <<children, cur, elapsed, probed>>
    ELSE /\ ReadinessLoop(StartAll(children, 1), 1)
         /\ UNCHANGED <<reported, exitCode, exitReason>>

\* The preflight loop from the current port on, until its next await.
PreflightLoop(ports, used) ==
    /\ requiredPorts' = ports
    /\ inUse' = used
    /\ IF ports # <<>>
       THEN /\ pc' = "preflight"
            /\ UNCHANGED <<reported, children, cur, elapsed, probed,
                           exitCode, exitReason>>
       ELSE AfterPreflight(used)

\* ---------------------------------------------------------------- actions

\* The config import resolves: handlers are registered, preflight begins.
ImportDone ==
    /\ UNCHANGED auxVars
    /\ pc = "import"
    /\ PreflightLoop(requiredPorts, inUse)
    /\ UNCHANGED <<readyUrl, isShuttingDown, shutdownCalls, lastProbe, ready, failed,
                   quietExits>>

\* `await isPortInUse(p)` resolves with the connect result.
PortCheck(connected) ==
    /\ UNCHANGED auxVars
    /\ pc = "preflight"
    /\ PreflightLoop(Tail(requiredPorts),
                     IF connected THEN Append(inUse, Head(requiredPorts)) ELSE inUse)
    /\ UNCHANGED <<readyUrl, isShuttingDown, shutdownCalls, lastProbe, ready, failed,
                   quietExits>>

\* mutant: the deadline is tested before the probe result
ProbeDoneDeadlineFirst(outcome, took) ==
    /\ UNCHANGED auxVars
    /\ pc = "probing"
    /\ lastProbe' = outcome
    /\ IF TimedOut(elapsed + took)
       THEN /\ failed' = failed \cup {cur}
            /\ ReadinessCatch(children, elapsed + took)
            /\ UNCHANGED ready
       ELSE IF IsOk(outcome)
       THEN /\ ready' = ready \cup {cur}
            /\ ReadinessLoop(children, cur + 1)
            /\ UNCHANGED <<failed, isShuttingDown, shutdownCalls, exitCode, exitReason>>
       ELSE /\ elapsed' = elapsed + took
            /\ pc' = "sleeping"
            /\ UNCHANGED <<ready, failed, cur, probed, children, isShuttingDown,
                           shutdownCalls, exitCode, exitReason>>
    /\ UNCHANGED <<readyUrl, requiredPorts, inUse, reported, quietExits>>

\* The probe promise resolves `took` ms after the request was sent: with a
\* response status, or with false after an 'error' or a 'timeout' event.
ProbeDone(outcome, took) ==
    /\ UNCHANGED auxVars
    /\ pc = "probing"
    /\ lastProbe' = outcome
    /\ IF IsOk(outcome)
       THEN \* return true; the readiness loop goes on with the next descriptor
            /\ ready' = ready \cup {cur}
            /\ ReadinessLoop(children, cur + 1)
            /\ UNCHANGED <<failed, isShuttingDown, shutdownCalls, exitCode, exitReason>>
       ELSE IF TimedOut(elapsed + took)
       THEN \* throw new Error(`Timed out waiting for ${url}`)
            /\ failed' = failed \cup {cur}
            /\ ReadinessCatch(children, elapsed + took)
            /\ UNCHANGED ready
       ELSE \* await setTimeout(intervalMs)
            /\ elapsed' = elapsed + took
            /\ pc' = "sleeping"
            /\ UNCHANGED <<ready, failed, cur, probed, children, isShuttingDown,
                           shutdownCalls, exitCode, exitReason>>
    /\ UNCHANGED <<readyUrl, requiredPorts, inUse, reported, quietExits>>

\* The sleep timer fires `late` ms after intervalMs; the next request is sent.
TimerFired(late) ==
    /\ UNCHANGED auxVars
    /\ pc = "sleeping"
    /\ elapsed' = elapsed + IntervalMs + late
    /\ lastProbe' = NoOutcome
    /\ pc' = "probing"
    /\ UNCHANGED <<readyUrl, requiredPorts, inUse, reported, children, isShuttingDown,
                   shutdownCalls, cur, probed, ready, failed, quietExits, exitCode,
                   exitReason>>

\* The event loop is turning: handlers of signals and child exits can run.
AtAwait == pc \in {"preflight", "probing", "sleeping", "running"}

\* child.on('exit', (code, signal) => ...) for the i-th tracked child
ChildExit(i, code) ==
    /\ UNCHANGED auxVars
    /\ AtAwait
    /\ i \in DOMAIN children
    /\ children[i].alive
    /\ LET ch == [children EXCEPT ![i].alive = FALSE, ![i].code = code] IN
       IF ExitIsFatal(isShuttingDown, code)
       THEN /\ ShutdownAndExit(ch, code, "child")
            /\ UNCHANGED quietExits
       ELSE /\ quietExits < MaxQuietExits
            /\ quietExits' = quietExits + 1
            /\ children' = ch
            /\ UNCHANGED <<pc, isShuttingDown, shutdownCalls, exitCode, exitReason>>
    /\ UNCHANGED <<readyUrl, requiredPorts, inUse, reported, cur, elapsed, lastProbe,
                   probed, ready, failed>>

\* process.on('SIGINT', ...)
OnSIGINT ==
    /\ UNCHANGED auxVars
    /\ AtAwait
    /\ ShutdownAndExit(children, 0, "SIGINT")
    /\ UNCHANGED <<readyUrl, requiredPorts, inUse, reported, cur, elapsed, lastProbe,
                   probed, ready, failed, quietExits>>

\* process.on('SIGTERM', ...)
OnSIGTERM ==
    /\ UNCHANGED auxVars
    /\ AtAwait
    /\ ShutdownAndExit(children, 0, "SIGTERM")
    /\ UNCHANGED <<readyUrl, requiredPorts, inUse, reported, cur, elapsed, lastProbe,
                   probed, ready, failed, quietExits>>

Outcomes == Statuses \cup {ErrOutcome}
AllOutcomes == Outcomes \cup {TimeoutOutcome}
Durations == Latencies \cup {ReqTimeoutMs}

Next ==
    \/ ImportDone
    \/ \E connected \in BOOLEAN : PortCheck(connected)
    \/ \E o \in Outcomes, t \in Latencies : ProbeDone(o, t)
    \/ ProbeDone(TimeoutOutcome, ReqTimeoutMs)
    \/ \E late \in Lateness : TimerFired(late)
    \/ \E i \in 1..(NumServices + 1), code \in ChildCodes : ChildExit(i, code)
    \/ OnSIGINT
    \/ OnSIGTERM

Spec == Init /\ [][Next]_vars

\* ------------------------------------------------- unit harness of shutdown
\* startService and shutdown called directly on the module state, as a test
\* with a process double calls them; no top-level code runs.
HarnessInit ==
    /\ AuxIdle
    /\ pc = "harness"
    /\ readyUrl = [s \in Services |-> FALSE]
    /\ requiredPorts = <<>>
    /\ inUse = <<>>
    /\ reported = <<>>
    /\ children = <<>>
    /\ isShuttingDown = FALSE
    /\ shutdownCalls = 0
    /\ cur = 0
    /\ elapsed = 0
    /\ lastProbe = NoOutcome
    /\ probed = {}
    /\ ready = {}
    /\ failed = {}
    /\ quietExits = 0
    /\ exitCode = Null
    /\ exitReason = "none"

HarnessStart(d) ==
    /\ UNCHANGED auxVars
    /\ pc = "harness"
    /\ Len(children) < MaxHarnessCalls
    /\ children' = startService(children, d)
    /\ UNCHANGED <<pc, readyUrl, requiredPorts, inUse, reported, isShuttingDown,
                   shutdownCalls, cur, elapsed, lastProbe, probed, ready, failed,
                   quietExits, exitCode, exitReason>>

HarnessShutdown ==
    /\ UNCHANGED auxVars
    /\ pc = "harness"
    /\ shutdownCalls < MaxHarnessCalls
    /\ shutdown(children)
    /\ UNCHANGED <<pc, readyUrl, requiredPorts, inUse, reported, cur, elapsed,
                   lastProbe, probed, ready, failed, quietExits, exitCode, exitReason>>

HarnessNext ==
    \/ \E d \in Descriptors : HarnessStart(d)
    \/ HarnessShutdown

SpecShutdown == HarnessInit /\ [][HarnessNext]_vars


\* ------------------------------------------------------- preflight with ports
\* The preflight of the script run against a concrete machine: the descriptors
\* have the port fields cfgPort and isPortInUse(p) resolves true exactly when
\* something listens on 127.0.0.1:p (socket 'connect'), false on 'error'.
\* Port 0 can be declared but nothing can listen on it.
AllPorts == {PortOf(d) : d \in Descriptors}
PortFields == {Null, 0} \cup AllPorts

isPortInUse(port) == port \in listening

PreflightInit ==
    /\ EchoIdle
    /\ WishIdle
    /\ RetryIdle
    /\ PrefixIdle
    /\ ChunkIdle
    /\ MfIdle
    /\ TrackerIdle
    /\ cfgPort \in [Descriptors -> PortFields]
    /\ listening \in SUBSET AllPorts
    /\ pc = "import"
    /\ readyUrl = [s \in Services |-> FALSE]
    /\ requiredPorts = RequiredPorts(cfgPort)
    /\ inUse = <<>>
    /\ reported = <<>>
    /\ children = <<>>
    /\ isShuttingDown = FALSE
    /\ shutdownCalls = 0
    /\ cur = 0
    /\ elapsed = 0
    /\ lastProbe = NoOutcome
    /\ probed = {}
    /\ ready = {}
    /\ failed = {}
    /\ quietExits = 0
    /\ exitCode = Null
    /\ exitReason = "none"

\* `await isPortInUse(p)` resolves for the port at the head of the loop
PreflightCheck ==
    /\ pc = "preflight"
    /\ PortCheck(isPortInUse(Head(requiredPorts)))

PreflightNext ==
    \/ ImportDone
    \/ PreflightCheck

SpecPreflight == PreflightInit /\ [][PreflightNext]_vars


\* ------------------------------------------------------ output of one child
\* The 'data' handlers of one child named N.  A stream delivers what the child
\* wrote as a sequence of chunks, cut wherever the pipe cuts it; each handler
\* writes prefixLines(N, chunk).  Text is a sequence of characters; Prefix
\* stands for the characters of `[N] `.
CR == "CR"
LF == "LF"
Prefix == "[N] "
Alphabet == {"a", CR, LF}
Texts(n) == UNION {[1..k -> Alphabet] : k \in 1..n}

\* text.split(/\r?\n/) from position i on, `line` being the piece in progress
RECURSIVE SplitLines(_, _, _)
SplitLines(text, i, line) ==
    IF i > Len(text) THEN <<line>>
    ELSE IF text[i] = LF
    THEN <<IF line # <<>> /\ line[Len(line)] = CR
           THEN SubSeq(line, 1, Len(line) - 1) ELSE line>>
         \o SplitLines(text, i + 1, <<>>)
    ELSE SplitLines(text, i + 1, Append(line, text[i]))

\* (line) => line.length ? `[${name}] ${line}` : line
PrefixLine(line) == IF Len(line) # 0 THEN <<Prefix>> \o line ELSE line

\* .join('\n')
RECURSIVE JoinLines(_)
JoinLines(lines) ==
    IF Len(lines) = 1 THEN lines[1]
    ELSE lines[1] \o <<LF>> \o JoinLines(Tail(lines))

prefixLines(chunk) ==
    LET lines == SplitLines(chunk, 1, <<>>) IN
    JoinLines([k \in DOMAIN lines |-> PrefixLine(lines[k])])

TotalSent == Len(sent["stdout"]) + Len(sent["stderr"])

PrefixInit ==
    /\ EchoIdle
    /\ WishIdle
    /\ RetryIdle
    /\ OrchIdle
    /\ PreIdle
    /\ ChunkIdle
    /\ MfIdle
    /\ TrackerIdle
    /\ PrefixIdle

\* child.stdout.on('data', chunk => process.stdout.write(prefixLines(name, chunk)))
OnStdoutData(chunk) ==
    /\ TotalSent + Len(chunk) <= MaxText
    /\ sent' = [sent EXCEPT !["stdout"] = @ \o chunk]
    /\ written' = [written EXCEPT !["stdout"] = @ \o prefixLines(chunk)]
    /\ UNCHANGED <<orchVars, preVars, chunkVars, mfVars, trackerVars, retryVars, wishVars, echoVars>>

\* child.stderr.on('data', chunk => process.stderr.write(prefixLines(name, chunk)))
OnStderrData(chunk) ==
    /\ TotalSent + Len(chunk) <= MaxText
    /\ sent' = [sent EXCEPT !["stderr"] = @ \o chunk]
    /\ written' = [written EXCEPT !["stderr"] = @ \o prefixLines(chunk)]
    /\ UNCHANGED <<orchVars, preVars, chunkVars, mfVars, trackerVars, retryVars, wishVars, echoVars>>

PrefixNext ==
    \/ \E chunk \in Texts(MaxText) : OnStdoutData(chunk)
    \/ \E chunk \in Texts(MaxText) : OnStderrData(chunk)

SpecPrefix == PrefixInit /\ [][PrefixNext]_vars


\* ------------------------------------------------------ chunk load recovery
\* installChunkLoadRecovery in one browser tab.  sessionStorage lives as long
\* as the tab, across reloads; whether its reads and writes throw is a
\* property of the browser, fixed for the session.  reload() unloads the
\* page; the next page load installs the listeners again.

\* hasRecentlyReloaded(): true in the catch branch; false without an item;
\* else now() - ts < RELOAD_GUARD_TTL_MS (the item is always a finite number)
hasRecentlyReloaded ==
    IF readThrows THEN TRUE
    ELSE IF guardItem = Null THEN FALSE
    ELSE clock - guardItem < RELOAD_GUARD_TTL_MS

\* markReloaded(): the item after setItem(KEY, String(now())); a throwing
\* setItem is caught and ignored
markReloaded == IF writeThrows THEN guardItem ELSE clock

ChunkInit ==
    /\ EchoIdle
    /\ WishIdle
    /\ RetryIdle
    /\ OrchIdle
    /\ PreIdle
    /\ PrefixIdle
    /\ MfIdle
    /\ TrackerIdle
    /\ guardItem = Null
    /\ clock = 0
    /\ readThrows \in BOOLEAN
    /\ writeThrows \in BOOLEAN
    /\ installed = FALSE
    /\ reloads = <<>>

\* The page loads and calls installChunkLoadRecovery().
PageLoad ==
    /\ ~installed
    /\ installed' = TRUE
    /\ UNCHANGED <<guardItem, clock, readThrows, writeThrows, reloads>>
    /\ UNCHANGED <<orchVars, preVars, prefixVars, mfVars, trackerVars, retryVars, wishVars, echoVars>>

\* Time passes.
Tick ==
    /\ clock < MaxTicks * TickMs
    /\ clock' = clock + TickMs
    /\ UNCHANGED <<guardItem, readThrows, writeThrows, installed, reloads>>
    /\ UNCHANGED <<orchVars, preVars, prefixVars, mfVars, trackerVars, retryVars, wishVars, echoVars>>

\* maybeRecover(err, source), from either listener: isChunk is
\* isChunkLoadError(err), online is navigator.onLine !== false.
maybeRecover(isChunk, online) ==
    /\ installed
    /\ Len(reloads) < MaxReloads
    /\ IF isChunk /\ online /\ ~hasRecentlyReloaded
       THEN /\ guardItem' = markReloaded
            /\ reloads' = Append(reloads, clock)
            /\ installed' = FALSE
       ELSE UNCHANGED <<guardItem, reloads, installed>>
    /\ UNCHANGED <<clock, readThrows, writeThrows>>
    /\ UNCHANGED <<orchVars, preVars, prefixVars, mfVars, trackerVars, retryVars, wishVars, echoVars>>

ChunkNext ==
    \/ PageLoad
    \/ Tick
    \/ \E isChunk \in BOOLEAN, online \in BOOLEAN : maybeRecover(isChunk, online)

SpecChunk == ChunkInit /\ [][ChunkNext]_vars

\* ------------------------------------------------ Module Federation helpers
\* initContainerOnce on one page.  Every promise the code creates gets the
\* next number.  An async function returns a promise of its own on every
\* call; `return p` inside it makes that promise follow p.  The body of
\* initContainerOnce has no await, so a call runs to its return in one turn,
\* the async arrow inside it up to `await ensureDefaultShareScope()`.

\* mutant: the lookup in the Map never finds an entry
HasEntryNever(cache, r) == FALSE

\* mutant: an entry whose promise was rejected does not count
HasEntryUnlessRejected(cache, r) ==
    cache[r] # 0 /\ initState[cache[r]].state # "rejected"

\* containerInitPromises.has(remoteName)
HasEntry(cache, r) == cache[r] # 0

MfInit ==
    /\ EchoIdle
    /\ WishIdle
    /\ RetryIdle
    /\ OrchIdle
    /\ PreIdle
    /\ PrefixIdle
    /\ ChunkIdle
    /\ TrackerIdle
    /\ mfRuntime \in BOOLEAN
    /\ nextPromise = 0
    /\ containerInitPromises = [r \in Remotes |-> 0]
    /\ initState = <<>>
    /\ initCalls = [r \in Remotes |-> 0]
    /\ received = <<>>

\* State of the init promise cached for r, as a caller finds it.
SeenState(r) ==
    IF containerInitPromises[r] = 0 THEN "none"
    ELSE initState[containerInitPromises[r]].state

\* initContainerOnce(remoteName, container); valid: container has an init()
initContainerOnce(r, valid) ==
    /\ Len(received) < MaxCalls
    /\ LET own == nextPromise + 1     \* the promise of this call
           made == nextPromise + 2    \* initPromise, when one is created
       IN
       IF ~valid
       THEN \* throw: the promise of the call is rejected, nothing is cached
            /\ nextPromise' = own
            /\ received' = Append(received, [remote |-> r, valid |-> FALSE,
                                 promise |-> own, follows |-> 0, seen |-> SeenState(r)])
            /\ UNCHANGED <<containerInitPromises, initState>>
       ELSE IF HasEntry(containerInitPromises, r)
       THEN \* return containerInitPromises.get(remoteName)
            /\ nextPromise' = own
            /\ received' = Append(received, [remote |-> r, valid |-> TRUE,
                                 promise |-> own, follows |-> containerInitPromises[r],
                                 seen |-> SeenState(r)])
            /\ UNCHANGED <<containerInitPromises, initState>>
       ELSE \* the async arrow starts; set(remoteName, initPromise); return it
            /\ nextPromise' = made
            /\ initState' = (made :> [remote |-> r,
                                      state |-> IF mfRuntime THEN "sharing" ELSE "rejected"])
                             @@ initState
            /\ containerInitPromises' = [containerInitPromises EXCEPT ![r] = made]
            /\ received' = Append(received, [remote |-> r, valid |-> TRUE,
                                 promise |-> own, follows |-> made, seen |-> SeenState(r)])
    /\ UNCHANGED <<mfRuntime, initCalls>>
    /\ UNCHANGED <<orchVars, preVars, prefixVars, chunkVars, trackerVars, retryVars, wishVars, echoVars>>

\* `await ensureDefaultShareScope()` settles for init promise p: the share
\* scope is there ("ready"), is missing, or __webpack_init_sharing__ failed.
\* With the scope, container.init(shareScope) is called.
ShareScopeSettled(p, how) ==
    /\ p \in DOMAIN initState
    /\ initState[p].state = "sharing"
    /\ IF how = "ready"
       THEN /\ initCalls' = [initCalls EXCEPT ![initState[p].remote] = @ + 1]
            /\ initState' = [initState EXCEPT ![p].state = "initializing"]
       ELSE /\ initState' = [initState EXCEPT ![p].state = "rejected"]
            /\ UNCHANGED initCalls
    /\ UNCHANGED <<mfRuntime, nextPromise, containerInitPromises, received>>
    /\ UNCHANGED <<orchVars, preVars, prefixVars, chunkVars, trackerVars, retryVars, wishVars, echoVars>>

\* `await container.init(shareScope)` settles: "ok", the "already
\* initialized with a different share scope" error (swallowed), or another
\* error (rethrown).
ContainerInitSettled(p, how) ==
    /\ p \in DOMAIN initState
    /\ initState[p].state = "initializing"
    /\ initState' = [initState EXCEPT
                        ![p].state = IF how = "error" THEN "rejected" ELSE "resolved"]
    /\ UNCHANGED <<mfRuntime, nextPromise, containerInitPromises, initCalls, received>>
    /\ UNCHANGED <<orchVars, preVars, prefixVars, chunkVars, trackerVars, retryVars, wishVars, echoVars>>

PromiseIds == 1..(2 * MaxCalls)

MfNext ==
    \/ \E r \in Remotes, valid \in BOOLEAN : initContainerOnce(r, valid)
    \/ \E p \in PromiseIds, how \in {"ready", "missing", "failed"} : ShareScopeSettled(p, how)
    \/ \E p \in PromiseIds, how \in {"ok", "already", "error"} : ContainerInitSettled(p, how)

SpecMf == MfInit /\ [][MfNext]_vars

\* ---------------------------------------------------------- attempt tracker
\* The fail mode of the AttemptTracker singleton (utils/attemptTracker.js).
\* The attempt counts do not touch the fail mode and are left out.  The
\* stored item is the JSON text "true" or "false", absent, or text that
\* JSON.parse rejects.

\* isProductionBuild(): nodeEnv === 'production'
isProductionBuild == nodeEnv = "production"

\* getLocalStorage() returns a storage whose calls succeed
StorageUsable == storageMode = "ok"

\* loadFailMode()
loadFailMode ==
    IF isProductionBuild THEN FALSE
    ELSE IF ~StorageUsable THEN FALSE
    ELSE storedFailMode = "true"

\* saveFailMode() after this.failModeEnabled became `enabled`: the stored item
saveFailMode(enabled) ==
    IF StorageUsable
    THEN (IF enabled THEN "true" ELSE "false")
    ELSE storedFailMode

getFailMode == failModeEnabled

\* a returned boolean, as recorded in lastReturn
Returned(b) == IF b THEN "true" ELSE "false"

isFailModeAvailable == ~isProductionBuild

shouldFail == IF failModeEnabled THEN TRUE ELSE FALSE

TrackerInit ==
    /\ EchoIdle
    /\ WishIdle
    /\ RetryIdle
    /\ OrchIdle
    /\ PreIdle
    /\ PrefixIdle
    /\ ChunkIdle
    /\ MfIdle
    /\ nodeEnv \in {"production", "development", "undefined"}
    /\ storageMode \in {"ok", "missing", "throws"}
    /\ storedFailMode \in {"absent", "true", "false", "garbage"}
    /\ constructed = FALSE
    /\ failModeEnabled = FALSE
    /\ lastReturn = "none"
    /\ lastClick = "none"

\* const attemptTracker = new AttemptTracker()
Construct ==
    /\ ~constructed
    /\ constructed' = TRUE
    /\ IF isProductionBuild /\ loadFailMode
       THEN /\ failModeEnabled' = FALSE
            /\ storedFailMode' = saveFailMode(FALSE)
       ELSE /\ failModeEnabled' = loadFailMode
            /\ UNCHANGED storedFailMode
    /\ UNCHANGED <<nodeEnv, storageMode, lastReturn, lastClick>>
    /\ UNCHANGED <<orchVars, preVars, prefixVars, chunkVars, mfVars, retryVars, wishVars, echoVars>>

\* mutant: toggleFailMode without the production guard
toggleFailModeUnguarded ==
    /\ constructed
    /\ failModeEnabled' = ~failModeEnabled
    /\ storedFailMode' = saveFailMode(~failModeEnabled)
    /\ lastReturn' = Returned(~failModeEnabled)
    /\ UNCHANGED <<nodeEnv, storageMode, constructed, lastClick>>
    /\ UNCHANGED <<orchVars, preVars, prefixVars, chunkVars, mfVars, retryVars, wishVars, echoVars>>

toggleFailMode ==
    /\ constructed
    /\ IF isProductionBuild
       THEN /\ lastReturn' = Returned(FALSE)
            /\ UNCHANGED <<failModeEnabled, storedFailMode>>
       ELSE /\ failModeEnabled' = ~failModeEnabled
            /\ storedFailMode' = saveFailMode(~failModeEnabled)
            /\ lastReturn' = Returned(~failModeEnabled)
    /\ UNCHANGED <<nodeEnv, storageMode, constructed, lastClick>>
    /\ UNCHANGED <<orchVars, preVars, prefixVars, chunkVars, mfVars, retryVars, wishVars, echoVars>>

\* setFailMode(enabled); enabled is Boolean(enabled) of the argument
setFailMode(enabled) ==
    /\ constructed
    /\ IF isProductionBuild
       THEN /\ lastReturn' = Returned(FALSE)
            /\ UNCHANGED <<failModeEnabled, storedFailMode>>
       ELSE /\ failModeEnabled' = enabled
            /\ storedFailMode' = saveFailMode(enabled)
            /\ lastReturn' = Returned(enabled)
    /\ UNCHANGED <<nodeEnv, storageMode, constructed, lastClick>>
    /\ UNCHANGED <<orchVars, preVars, prefixVars, chunkVars, mfVars, retryVars, wishVars, echoVars>>

\* Navbar.jsx isFailModeOn(): JSON.parse(localStorage.getItem(KEY) || 'false')
\* === true, false when the read or the parse throws
isFailModeOn == StorageUsable /\ storedFailMode = "true"

\* onClickCapture of the AppBar: maybeInjectLogicalError(event).  onButton:
\* the target is an element inside a button or link that is not marked
\* data-skip-logical-error.  A blocked click is prevented, stopped and
\* reported as a logical error.  The navbar module imports the tracker, so
\* the singleton exists before any click.
NavbarClick(onButton) ==
    /\ constructed
    /\ lastClick' = IF isFailModeOn /\ onButton THEN "blocked" ELSE "passed"
    /\ UNCHANGED <<nodeEnv, storageMode, storedFailMode, constructed, failModeEnabled,
                   lastReturn>>
    /\ UNCHANGED <<orchVars, preVars, prefixVars, chunkVars, mfVars, retryVars, wishVars, echoVars>>

TrackerNext ==
    \/ Construct
    \/ toggleFailMode
    \/ \E enabled \in BOOLEAN : setFailMode(enabled)
    \/ \E onButton \in BOOLEAN : NavbarClick(onButton)

SpecTracker == TrackerInit /\ [][TrackerNext]_vars

\* -------------------------------------------------- navbar: importWithRetry
\* triggerChunkLoadFailure (Navbar.jsx).  Each click starts a promise chain
\* of its own; chains[k] follows the k-th.  errs lists the error name of
\* every failed attempt, in order.  A rejection of the chain reaches the
\* .catch of triggerChunkLoadFailure in the same run of the microtask queue,
\* so rejecting and logging are one step.

\* mutant: the retry test lets the counter reach zero once more
ShouldRetryOneMore(retries, name) == retries >= 0 /\ name = "ChunkLoadError"

\* retries > 0 && error?.name === 'ChunkLoadError'
ShouldRetry(retries, name) == retries > 0 /\ name = "ChunkLoadError"

ErrorNames == {"ChunkLoadError", "TypeError"}

RetryInit ==
    /\ EchoIdle
    /\ WishIdle
    /\ OrchIdle
    /\ PreIdle
    /\ PrefixIdle
    /\ ChunkIdle
    /\ MfIdle
    /\ TrackerIdle
    /\ chains = <<>>

\* A click: importWithRetry(importFn) with retries = CHUNK_RETRY_LIMIT calls
\* importFn() for the first time.
triggerChunkLoadFailure ==
    /\ Len(chains) < MaxClicks
    /\ chains' = Append(chains, [pc |-> "importing", retries |-> CHUNK_RETRY_LIMIT,
                                 attempts |-> 1, errs |-> <<>>,
                                 rejectedWith |-> 0, logged |-> 0])
    /\ UNCHANGED <<orchVars, preVars, prefixVars, chunkVars, mfVars, trackerVars, wishVars, echoVars>>

\* The import of chain k resolves: the chain resolves with the module.
ImportResolved(k) ==
    /\ k \in DOMAIN chains
    /\ chains[k].pc = "importing"
    /\ chains' = [chains EXCEPT ![k].pc = "resolved"]
    /\ UNCHANGED <<orchVars, preVars, prefixVars, chunkVars, mfVars, trackerVars, wishVars, echoVars>>

\* The import of chain k rejects with an error of the given name: the .catch
\* of importWithRetry either starts the delay or rethrows; a rethrown error
\* is logged by the .catch of triggerChunkLoadFailure.  An error is told by
\* the number of the attempt that produced it.
ImportRejected(k, name) ==
    /\ k \in DOMAIN chains
    /\ chains[k].pc = "importing"
    /\ LET c == chains[k]
           errs == Append(c.errs, name)
       IN
       IF ShouldRetry(c.retries, name)
       THEN chains' = [chains EXCEPT ![k] = [c EXCEPT !.pc = "waiting", !.errs = errs]]
       ELSE chains' = [chains EXCEPT ![k] = [c EXCEPT !.pc = "rejected", !.errs = errs,
                                                      !.rejectedWith = c.attempts,
                                                      !.logged = c.attempts]]
    /\ UNCHANGED <<orchVars, preVars, prefixVars, chunkVars, mfVars, trackerVars, wishVars, echoVars>>

\* setTimeout(resolve, CHUNK_RETRY_DELAY_MS) fires:
\* importWithRetry(importFn, retries - 1) calls importFn() again.
RetryTimerFired(k) ==
    /\ k \in DOMAIN chains
    /\ chains[k].pc = "waiting"
    /\ chains' = [chains EXCEPT ![k].pc = "importing",
                                ![k].retries = @ - 1,
                                ![k].attempts = @ + 1]
    /\ UNCHANGED <<orchVars, preVars, prefixVars, chunkVars, mfVars, trackerVars, wishVars, echoVars>>

RetryNext ==
    \/ triggerChunkLoadFailure
    \/ \E k \in 1..MaxClicks : ImportResolved(k)
    \/ \E k \in 1..MaxClicks, name \in ErrorNames : ImportRejected(k, name)
    \/ \E k \in 1..MaxClicks : RetryTimerFired(k)

SpecRetry == RetryInit /\ [][RetryNext]_vars

\* -------------------------------------------------------- wishlist provider
\* WishlistProvider (contexts/WishlistContext.jsx) mounted once.  The fields
\* of provider:
\*   pc             "unmounted"; "effects": a render is committed and its
\*                  passive effects are pending; "render": state updates are
\*                  queued; "idle": nothing is pending
\*   first          the committed render is the first one
\*   strict         the tree is inside React.StrictMode (mount effects run twice)
\*   writeThrows    localStorage.setItem throws
\*   wishlistItems, loading    the committed state
\*   queue          state updates not yet rendered, in call order
\*   stored         the localStorage item: kind "absent", "array" (its items
\*                  in items) or "other" (text that is no JSON array)
\*   saved0         the item as the earlier session left it
\*   ops            calls of addToWishlist / removeFromWishlist / clearWishlist
\*   earlyWrite     setItem was called by a render whose loading was true
\* A product is a record [id, tag]; the id is Null (undefined), 0 or a
\* positive number; the tag tells two products of one id apart.
Product(id, tag) == [id |-> id, tag |-> tag]
Products == {Product(Null, "a"), Product(0, "a"), Product(1, "a"), Product(1, "b"),
             Product(2, "a")}

Absent == [kind |-> "absent", items |-> <<>>]
Other == [kind |-> "other", items |-> <<>>]
ArrayOf(items) == [kind |-> "array", items |-> items]
SavedItems == {Absent, Other, ArrayOf(<<>>), ArrayOf(<<Product(1, "a")>>), ArrayOf(<<Product(2, "a"), Product(1, "b")>>),
               ArrayOf(<<Product(Null, "a"), Product(0, "a")>>)}

\* prev.some((p) => p?.id === id)
HasId(prev, id) == \E k \in DOMAIN prev : prev[k].id = id

\* the updater of addToWishlist
AddUpdater(prev, product) ==
    IF HasId(prev, product.id) THEN prev ELSE <<product>> \o prev

\* the updater of removeFromWishlist: prev.filter((p) => p?.id !== productId)
RemoveUpdater(prev, productId) ==
    LET Keep(p) == p.id # productId IN SelectSeq(prev, Keep)

\* addToWishlist goes on past `if (!product?.id) return`
AddAccepted(product) == Truthy(product.id)

\* safeJsonParse(getItem(KEY), []) normalised by Array.isArray
LoadedItems(stored) == IF stored.kind = "array" THEN stored.items ELSE <<>>

\* mutant: the persist effect has no loading test
PersistSkippedNever(loading) == FALSE

\* persist effect: if (loading) return
PersistSkipped(loading) == loading

\* One passive effect run against the committed render of s.
RunEffect(s, eff) ==
    IF eff = "load"
    THEN [s EXCEPT !.queue = @ \o <<[op |-> "set", items |-> LoadedItems(s.stored)],
                                     [op |-> "loaded", items |-> <<>>]>>]
    ELSE IF PersistSkipped(s.loading) THEN s
    ELSE [s EXCEPT !.stored = IF s.writeThrows THEN @ ELSE ArrayOf(s.wishlistItems),
                   !.earlyWrite = @ \/ s.loading]

RECURSIVE RunEffects(_, _)
RunEffects(s, effs) ==
    IF effs = <<>> THEN s ELSE RunEffects(RunEffect(s, Head(effs)), Tail(effs))

\* Effects of a commit: both on the first one (twice under StrictMode), the
\* persist effect on later ones.
EffectsOf(s) ==
    IF s.first
    THEN (IF s.strict THEN <<"load", "persist", "load", "persist">>
          ELSE <<"load", "persist">>)
    ELSE <<"persist">>

\* One queued update applied to the state.
ApplyUpdate(s, u) ==
    IF u.op = "set" THEN [s EXCEPT !.wishlistItems = u.items]
    ELSE IF u.op = "loaded" THEN [s EXCEPT !.loading = FALSE]
    ELSE IF u.op = "add" THEN [s EXCEPT !.wishlistItems = AddUpdater(@, u.items[1])]
    ELSE IF u.op = "remove" THEN [s EXCEPT !.wishlistItems = RemoveUpdater(@, u.items[1].id)]
    ELSE [s EXCEPT !.wishlistItems = <<>>]

RECURSIVE ApplyQueue(_, _)
ApplyQueue(s, q) ==
    IF q = <<>> THEN s ELSE ApplyQueue(ApplyUpdate(s, Head(q)), Tail(q))

WishInit ==
    /\ EchoIdle
    /\ OrchIdle
    /\ PreIdle
    /\ PrefixIdle
    /\ ChunkIdle
    /\ MfIdle
    /\ TrackerIdle
    /\ RetryIdle
    /\ \E saved \in SavedItems, strictMode \in BOOLEAN, setItemThrows \in BOOLEAN :
          provider = [pc |-> "unmounted", first |-> TRUE, strict |-> strictMode,
                      writeThrows |-> setItemThrows, wishlistItems |-> <<>>,
                      loading |-> TRUE, queue |-> <<>>, stored |-> saved,
                      saved0 |-> saved, ops |-> 0, earlyWrite |-> FALSE]

\* First render: useState([]), useState(true); the render is committed.
WishMount ==
    /\ provider.pc = "unmounted"
    /\ provider' = [provider EXCEPT !.pc = "effects"]
    /\ UNCHANGED <<orchVars, preVars, prefixVars, chunkVars, mfVars, trackerVars, retryVars, echoVars>>

\* The passive effects of the committed render run.
FlushEffects ==
    /\ provider.pc = "effects"
    /\ LET s == RunEffects(provider, EffectsOf(provider)) IN
       provider' = [s EXCEPT !.pc = IF s.queue = <<>> THEN "idle" ELSE "render"]
    /\ UNCHANGED <<orchVars, preVars, prefixVars, chunkVars, mfVars, trackerVars, retryVars, echoVars>>

\* React renders again with the queued updates and commits.
Rerender ==
    /\ provider.pc = "render"
    /\ LET s == ApplyQueue(provider, provider.queue) IN
       provider' = [s EXCEPT !.pc = "effects", !.first = FALSE, !.queue = <<>>]
    /\ UNCHANGED <<orchVars, preVars, prefixVars, chunkVars, mfVars, trackerVars, retryVars, echoVars>>

\* A call by the page, between two renders.
WishCall(update) ==
    /\ provider.pc \in {"render", "idle"}
    /\ provider.ops < MaxOps
    /\ provider' = [provider EXCEPT !.ops = @ + 1,
                                    !.queue = @ \o update,
                                    !.pc = IF provider.queue \o update = <<>>
                                           THEN "idle" ELSE "render"]
    /\ UNCHANGED <<orchVars, preVars, prefixVars, chunkVars, mfVars, trackerVars, retryVars, echoVars>>

\* addToWishlist(product): nothing is queued for a product without id
addToWishlist(product) ==
    WishCall(IF AddAccepted(product)
             THEN <<[op |-> "add", items |-> <<product>>]>> ELSE <<>>)

\* removeFromWishlist(productId)
removeFromWishlist(productId) ==
    WishCall(<<[op |-> "remove", items |-> <<[id |-> productId, tag |-> "a"]>>]>>)

\* clearWishlist()
clearWishlist == WishCall(<<[op |-> "clear", items |-> <<>>]>>)

WishNext ==
    \/ WishMount
    \/ FlushEffects
    \/ Rerender
    \/ \E product \in Products : addToWishlist(product)
    \/ \E productId \in {p.id : p \in Products} : removeFromWishlist(productId)
    \/ clearWishlist

SpecWishlist == WishInit /\ [][WishNext]_vars

\* ============================================================ mock API: /api/echo
\* JSON values, as far as the handler looks at them: the kind of value and,
\* for an object, its own property __error ("undefined" when it has none).
JValue(kind) == [kind |-> kind, err |-> "undefined"]
JObject(err) == [kind |-> "object", err |-> err]

\* Request bodies: a text followed by spaces up to the bytes sent.
ValidTexts == {"null", "7", "1e999", "{}", "{\"__error\":\"\"}", "{\"__error\":\"boom\"}"}

\* the JSON grammar
IsValidJson(text) == text \in ValidTexts

\* Buffer length of a text
ByteLength(text) ==
    CASE text = "" -> 0
      [] text = "7" -> 1
      [] text \in {"{}", "[1"} -> 2
      [] text = "null" -> 4
      [] text = "1e999" -> 5
      [] text = "{\"__error\":\"\"}" -> 14
      [] OTHER -> 18

\* JSON.parse: the value, or ok = FALSE for a SyntaxError
JsonParse(text) ==
    CASE text = "null" -> [ok |-> TRUE, value |-> JValue("null")]
      [] text = "7" -> [ok |-> TRUE, value |-> JValue("number")]
      [] text = "1e999" -> [ok |-> TRUE, value |-> JValue("Infinity")]
      [] text = "{}" -> [ok |-> TRUE, value |-> JObject("undefined")]
      [] text = "{\"__error\":\"\"}" -> [ok |-> TRUE, value |-> JObject("")]
      [] text = "{\"__error\":\"boom\"}" -> [ok |-> TRUE, value |-> JObject("boom")]
      [] OTHER -> [ok |-> FALSE, value |-> JValue("undefined")]

\* JSON.stringify of a value inside the response, read back by the client
JsonStringify(value) == IF value.kind = "Infinity" THEN JValue("null") ELSE value

ChunkSizes == {1, 20, 500000, 999980, 1000001}

RECURSIVE SumSeq(_)
SumSeq(q) == IF q = <<>> THEN 0 ELSE Head(q) + SumSeq(Tail(q))

NoReply == [key |-> "none", error |-> "", received |-> JValue("undefined")]

\* sendJson / sendText / res.end
Respond(status, key, error, value) ==
    [echo EXCEPT !.pc = "listening", !.status = status,
                 !.reply = [key |-> key, error |-> error, received |-> value]]

\* body?.__error
HasError(body) == body.err \notin {"undefined", ""}

\* lines 127-135: the response for what readJsonBody(...).catch(...) gave
EchoRespond(body) ==
    IF HasError(body)
    THEN Respond(400, "error", body.err, JValue("undefined"))
    ELSE Respond(200, "received", "", JsonStringify(body))

EchoInit ==
    /\ OrchIdle
    /\ PreIdle
    /\ PrefixIdle
    /\ ChunkIdle
    /\ MfIdle
    /\ TrackerIdle
    /\ RetryIdle
    /\ WishIdle
    /\ echo = [pc |-> "listening", method |-> "", path |-> "", text |-> "",
               chunks |-> <<>>, idx |-> 0, bytes |-> 0, status |-> 0,
               reply |-> NoReply]

\* The request listener up to its first await.
EchoRequest(method, path, text, chunks) ==
    /\ echo.pc = "listening"
    /\ echo.status = 0
    /\ IF chunks = <<>> THEN text = "" ELSE SumSeq(chunks) >= ByteLength(text)
    /\ (method = "POST" /\ path = "/api/echo") \/ chunks = <<>>
    /\ LET req == [echo EXCEPT !.method = method, !.path = path, !.text = text,
                               !.chunks = chunks, !.idx = 0, !.bytes = 0,
                               !.status = 0, !.reply = NoReply] IN
       echo' = CASE method = "OPTIONS" ->
                      [req EXCEPT !.status = 204]
                 [] method = "GET" /\ path = "/health" ->
                      [req EXCEPT !.status = 200, !.reply.key = "ok"]
                 [] method = "GET" /\ path = "/api/time" ->
                      [req EXCEPT !.status = 200, !.reply.key = "now"]
                 [] method = "POST" /\ path = "/api/echo" ->
                      [req EXCEPT !.pc = "reading"]
                 [] method = "GET" /\ path = "/api/fail-500" ->
                      [req EXCEPT !.status = 500, !.reply.key = "error",
                                  !.reply.error = "simulated_failure"]
                 [] OTHER ->
                      [req EXCEPT !.status = 404, !.reply.key = "text"]
    /\ UNCHANGED <<orchVars, preVars, prefixVars, chunkVars, mfVars, trackerVars, retryVars, wishVars>>

\* readJsonBody: one turn of `for await (const chunk of req)`
ReadChunk ==
    /\ echo.pc = "reading"
    /\ echo.idx < Len(echo.chunks)
    /\ LET bytes == echo.bytes + echo.chunks[echo.idx + 1] IN
       echo' = IF bytes > MaxBytes
               THEN [EchoRespond(JObject("body_too_large")) EXCEPT !.bytes = bytes]
               ELSE [echo EXCEPT !.idx = @ + 1, !.bytes = bytes]
    /\ UNCHANGED <<orchVars, preVars, prefixVars, chunkVars, mfVars, trackerVars, retryVars, wishVars>>

\* readJsonBody after the last chunk, then the response
EndOfBody ==
    /\ echo.pc = "reading"
    /\ echo.idx = Len(echo.chunks)
    /\ LET parsed == JsonParse(echo.text)
           body == IF echo.chunks = <<>> THEN JValue("null")
                   ELSE IF parsed.ok THEN parsed.value
                   ELSE JObject("invalid_json") IN
       echo' = EchoRespond(body)
    /\ UNCHANGED <<orchVars, preVars, prefixVars, chunkVars, mfVars, trackerVars, retryVars, wishVars>>

\* The listener has logged the request and returned; the server waits again.
EchoDone ==
    /\ echo.pc = "listening"
    /\ echo.status # 0
    /\ echo' = [echo EXCEPT !.method = "", !.path = "", !.text = "", !.chunks = <<>>,
                            !.idx = 0, !.bytes = 0, !.status = 0, !.reply = NoReply]
    /\ UNCHANGED <<orchVars, preVars, prefixVars, chunkVars, mfVars, trackerVars, retryVars, wishVars>>

EchoNext ==
    \/ \E method \in {"GET", "POST", "OPTIONS"},
          path \in {"/health", "/api/time", "/api/echo", "/api/fail-500", "/"},
          text \in ValidTexts \cup {"", "[1"},
          chunks \in UNION {[1..k -> ChunkSizes] : k \in 0..MaxChunks} :
          EchoRequest(method, path, text, chunks)
    \/ ReadChunk
    \/ EndOfBody
    \/ EchoDone

SpecEcho == EchoInit /\ [][EchoNext]_vars

\* ===================================================== orchestrator claims
\* A step of ProbeDone(o, t), told by its cheapest conjuncts first.
ProbeStep(o, t) == pc = "probing" /\ lastProbe' = o /\ ProbeDone(o, t)

AllKilledOnce == \A i \in DOMAIN children : children[i].kills = 1

\* C1: the shell (primary) is tracked only when the readiness wait of every
\* service that declares a readyUrl has returned success.
C1_PrimaryAfterReady ==
    Shell \in Tracked(children) =>
        \A s \in Services : readyUrl[s] => s \in ready

C1_Witness ==
    /\ Shell \in Tracked(children)
    /\ readyUrl[NumServices]
    /\ NumServices \in ready
    /\ \E s \in Services : ~readyUrl[s]

\* C2: a child that exited with a non-zero code c has made the orchestrator
\* call shutdown (every tracked child signalled) and exit with code c, in
\* whatever phase the exit was handled.
C2_ChildFailureExits ==
    \A i \in DOMAIN children :
        (~children[i].alive /\ children[i].code # 0 /\ children[i].code # Null) =>
            /\ pc = "exited"
            /\ exitCode = children[i].code
            /\ shutdownCalls = 1
            /\ AllKilledOnce

C2_Witness ==
    /\ exitReason = "child"
    /\ exitCode = 3
    /\ cur # 0
    /\ \E i \in DOMAIN children : children[i].svc # cur /\ children[i].code = 3

\* C3: once the preflight has found an occupied port no process is ever
\* spawned, and when the preflight loop has finished with an occupied port
\* the run has reported the occupied ports and exited with code 1.
C3_PortConflictAborts ==
    Len(inUse) > 0 =>
        /\ children = <<>>
        /\ requiredPorts = <<>> =>
              /\ pc = "exited"
              /\ exitCode = 1
              /\ reported = inUse

C3_Witness ==
    /\ exitReason = "ports"
    /\ Len(inUse) = 2

\* C4: a readiness wait that failed has made the orchestrator call shutdown
\* (every tracked child signalled) and exit with code 1; no later descriptor
\* was probed and the shell was never started.
C4_ReadinessFailureExits ==
    \A s \in failed :
        /\ pc = "exited"
        /\ exitCode = 1
        /\ shutdownCalls = 1
        /\ AllKilledOnce
        /\ Shell \notin Tracked(children)
        /\ \A t \in probed : t <= s

C4_Witness ==
    /\ failed = {1}
    /\ readyUrl[NumServices]
    /\ NumServices > 1
    /\ Len(children) = NumServices

\* C5: a run ended by SIGINT or SIGTERM has signalled every child started so
\* far and exited with code 0, and both signals are handled in every phase
\* from the preflight on.
C5_SignalShutsDown ==
    /\ exitReason \in {"SIGINT", "SIGTERM"} =>
          /\ pc = "exited"
          /\ exitCode = 0
          /\ isShuttingDown
          /\ AllKilledOnce
    /\ pc \in {"preflight", "probing", "sleeping", "running"} =>
          (ENABLED OnSIGINT) /\ (ENABLED OnSIGTERM)

C5_Witness ==
    /\ exitReason = "SIGTERM"
    /\ cur # 0
    /\ Len(children) = NumServices
    /\ \E i \in DOMAIN children : ~children[i].alive


\* C6: no tracked process is sent the termination signal more than once,
\* however often shutdown is called.
C6_SignalledAtMostOnce ==
    \A i \in DOMAIN children : children[i].kills <= 1

\* C7: a wait returns success exactly on a probe whose response status s has
\* 200 <= s < 400, at that response and without a further probe or sleep of
\* the same wait; no other probe outcome yields success.
C7_ReadyIffOkStatus ==
    [][ /\ \A o \in AllOutcomes, t \in Durations :
              ProbeStep(o, t) =>
                  /\ (cur \in ready') <=> (o >= 200 /\ o < 400)
                  /\ (o >= 200 /\ o < 400) =>
                        /\ ~(cur' = cur /\ pc' \in {"probing", "sleeping"})
                        /\ cur \notin failed'
                        /\ pc' # "exited"
        /\ ready' # ready =>
              \E o \in AllOutcomes, t \in Durations :
                  ProbeStep(o, t) /\ o >= 200 /\ o < 400 /\ ready' = ready \cup {cur}
      ]_vars

C7_Witness ==
    /\ pc = "running"
    /\ lastProbe = 399
    /\ elapsed = 0
    /\ ready # {}

\* C8: a wait has failed only with no ready response and with more than
\* 60000 ms elapsed since it began; after a probe that was not ready the wait
\* goes on sleeping only while the elapsed time is at most 60000 ms.
C8_TimeoutOnlyAfterDeadline ==
    /\ \A s \in failed :
          /\ elapsed > 60000
          /\ s = cur
          /\ s \notin ready
          /\ exitReason = "readiness"
    /\ pc = "sleeping" => elapsed <= 60000

C8_Witness ==
    /\ failed # {}
    /\ elapsed = 60250
    /\ lastProbe = ErrOutcome

\* C9: a probe that ends with an error, a request timeout or a status outside
\* 200-399 while at most 60000 ms have elapsed leaves the run alive and the
\* wait asleep; the sleep of at least 250 ms is followed by a new probe of
\* the same descriptor; a wait ends only ready or past the deadline (or with
\* the orchestrator stopped by a signal or a failing child).
C9_FailuresRetried ==
    [][ /\ \A o \in AllOutcomes, t \in Durations :
              (ProbeStep(o, t) /\ ~(o >= 200 /\ o < 400) /\ elapsed + t <= 60000) =>
                  /\ pc' = "sleeping"
                  /\ cur' = cur
                  /\ exitCode' = Null
                  /\ failed' = failed
                  /\ children' = children
        /\ (pc = "sleeping" /\ pc' \notin {"sleeping", "exited"}) =>
              /\ pc' = "probing"
              /\ cur' = cur
              /\ elapsed' >= elapsed + 250
        /\ (cur # 0 /\ cur' # cur) => cur \in ready'
        /\ (cur # 0 /\ pc' = "exited" /\ exitReason' \notin {"child", "SIGINT", "SIGTERM"}) =>
              /\ cur \in failed'
              /\ elapsed' > 60000
      ]_vars

C9_Witness ==
    /\ pc = "sleeping"
    /\ lastProbe = TimeoutOutcome
    /\ elapsed = 10250

\* C10: a descriptor without readyUrl is never probed, never awaited and never
\* fails a readiness wait; as soon as services are started and every
\* declared readyUrl has answered ready, the shell is started.
C10_NoUrlNoWait ==
    /\ \A s \in Services :
          ~readyUrl[s] => (s \notin probed /\ s \notin failed /\ cur # s)
    /\ (children # <<>> /\ \A s \in Services : readyUrl[s] => s \in ready) =>
          Shell \in Tracked(children)

C10_Witness ==
    /\ pc = "running"
    /\ readyUrl[1]
    /\ ~readyUrl[NumServices]
    /\ probed = {1}
    /\ Shell \in Tracked(children)


\* C11: the step that sets the shutting-down flag ends the run and spawns
\* nothing, and once the flag is set or the run has ended no later phase
\* runs: no process is spawned and nothing else changes.
C11_ShutdownIsFinal ==
    [][ /\ isShuttingDown' =>
              /\ pc' = "exited"
              /\ Len(children') = Len(children)
        /\ (isShuttingDown \/ pc = "exited") => vars' = vars
      ]_vars

C11_Witness ==
    /\ isShuttingDown
    /\ exitReason = "child"
    /\ Shell \notin Tracked(children)
    /\ \E s \in Services : readyUrl[s] /\ s \notin probed

\* C12: no two tracked processes belong to the same descriptor; an exited
\* child stays in the list and is not started again.
C12_OneProcessPerDescriptor ==
    \A i, j \in DOMAIN children :
        i # j => children[i].svc # children[j].svc

C12_Witness ==
    /\ pc = "running"
    /\ Len(children) = NumServices + 1
    /\ \E i \in DOMAIN children : ~children[i].alive

\* C18: whenever a readiness probe has been issued, and whenever any service
\* is tracked at all, every configured service has been spawned.
C18_AllStartedBeforeProbes ==
    (probed # {} \/ children # <<>>) => Services \subseteq Tracked(children)

C18_Witness ==
    /\ pc = "probing"
    /\ lastProbe = NoOutcome
    /\ elapsed = 0
    /\ ready = {}
    /\ Len(children) = NumServices

\* C19: a child whose process ended with anything but exit code 0, a death
\* by signal (null code) included, has made the orchestrator shut down
\* every tracked child.
C19_UnexpectedDeathShutsDown ==
    \A i \in DOMAIN children :
        (~children[i].alive /\ children[i].code # 0) =>
            /\ isShuttingDown
            /\ AllKilledOnce

\* C20: a wait fails only in the step that completes a probe that was not
\* ready, so never before its first probe; a probe that completes with a
\* status in 200-399 yields success also when more than 60000 ms have elapsed.
C20_DeadlineAfterProbe ==
    [][ /\ failed' # failed =>
              /\ pc = "probing"
              /\ failed' = failed \cup {cur}
              /\ cur \in probed
              /\ ~(lastProbe' >= 200 /\ lastProbe' < 400)
        /\ \A o \in AllOutcomes, t \in Durations :
              (ProbeStep(o, t) /\ o >= 200 /\ o < 400 /\ elapsed + t > 60000) =>
                  /\ cur \in ready'
                  /\ failed' = failed
                  /\ pc' # "exited"
      ]_vars

C20_Witness ==
    /\ pc = "running"
    /\ lastProbe = 200
    /\ elapsed = 60250
    /\ ready # {}
    /\ failed = {}

\* C13: when the preflight loop has finished, the ports in inUse are exactly
\* the declared ports (shell port and every declared descriptor port) on
\* which a connect to 127.0.0.1 succeeds; inUse is empty when all are free.
DeclaredPorts == {cfgPort[d] : d \in DOMAIN cfgPort} \ {Null}
InUseSet == {inUse[i] : i \in DOMAIN inUse}

C13_OccupiedIsDeclaredAndListening ==
    (cfgPort # <<>> /\ pc \notin {"import", "preflight"}) =>
        /\ \A p \in PortFields \cup AllPorts :
              p \in InUseSet <=> (p \in DeclaredPorts /\ p \in listening)
        /\ (DeclaredPorts \cap listening = {}) => inUse = <<>>
        /\ reported = inUse

C13_Witness ==
    /\ pc = "exited"
    /\ exitReason = "ports"
    /\ InUseSet = {cfgPort[Shell]}
    /\ \E d \in Services : cfgPort[d] \in AllPorts \ listening
    /\ \E d \in Services : cfgPort[d] = 0
    /\ listening \ DeclaredPorts # {}

\* C14: whatever the cuts between the chunks of a stream, the text written
\* for the stream is the whole text of the stream with the prefix on each
\* line, that is, what one chunk holding the whole text would have produced.
C14_PrefixIndependentOfChunking ==
    \A st \in Streams : written[st] = prefixLines(sent[st])

\* C15: in one browser session any two calls of window.location.reload() made
\* by the chunk load recovery are at least 10 minutes apart, also when
\* sessionStorage reads or writes throw.
C15_AtMostOneReloadPerWindow ==
    \A i, j \in DOMAIN reloads :
        i < j => reloads[j] - reloads[i] >= 600000

\* C16 as stated: for every remote name container.init is called at most
\* once, and all callers that passed a valid container for that name
\* received one and the same promise.
ValidCallers(r) == {i \in DOMAIN received : received[i].remote = r /\ received[i].valid}

C16_SamePromiseForEveryCaller ==
    \A r \in Remotes :
        /\ initCalls[r] <= 1
        /\ \A i, j \in ValidCallers(r) : received[i].promise = received[j].promise

\* C16 amended: for every remote name container.init is called at most once,
\* and every caller that passed a valid container received a promise that
\* follows the one init promise cached for that name.
C16_InitOnceSharedOutcome ==
    \A r \in Remotes :
        /\ initCalls[r] <= 1
        /\ \A i \in ValidCallers(r) :
              /\ received[i].follows # 0
              /\ received[i].follows = containerInitPromises[r]

C16_Witness ==
    \E r \in Remotes :
        /\ initCalls[r] = 1
        /\ \E i, j \in ValidCallers(r) :
              /\ received[i].seen = "initializing"
              /\ received[j].seen = "resolved"

\* C17: where the build is a production build (NODE_ENV is 'production'),
\* after construction and any calls of toggleFailMode and setFailMode,
\* getFailMode() and shouldFail() are false and isFailModeAvailable() is
\* false, whatever localStorage held before construction; the calls
\* themselves return false.
C17_NoFailModeInProduction ==
    (nodeEnv = "production" /\ constructed) =>
        /\ getFailMode = FALSE
        /\ shouldFail = FALSE
        /\ isFailModeAvailable = FALSE
        /\ lastReturn \in {"none", "false"}

C17_Witness ==
    /\ nodeEnv = "production"
    /\ constructed
    /\ storageMode = "ok"
    /\ storedFailMode = "true"
    /\ lastReturn = "false"

\* C21: a chain makes at most 4 attempts (3 retries); every attempt before
\* the last failed with a ChunkLoadError; a resolved chain resolved at its
\* first successful attempt; a chain rejects only at an error of another
\* name or at the fourth failure, with the error of its last attempt, and
\* that error is logged by the caller.
AllChunkErrors(errs, n) == \A a \in 1..n : errs[a] = "ChunkLoadError"

C21_RetryOnlyChunkErrors ==
    \A k \in DOMAIN chains :
        LET c == chains[k] IN
        /\ c.attempts <= 4
        /\ c.pc = "importing" => Len(c.errs) = c.attempts - 1
        /\ c.pc = "resolved" => Len(c.errs) = c.attempts - 1
        /\ c.pc \in {"importing", "resolved"} => AllChunkErrors(c.errs, c.attempts - 1)
        /\ c.pc = "waiting" =>
              /\ Len(c.errs) = c.attempts
              /\ AllChunkErrors(c.errs, c.attempts)
              /\ c.attempts <= 3
        /\ c.pc = "rejected" =>
              /\ Len(c.errs) = c.attempts
              /\ AllChunkErrors(c.errs, c.attempts - 1)
              /\ (c.errs[c.attempts] # "ChunkLoadError" \/ c.attempts = 4)
              /\ c.rejectedWith = c.attempts
              /\ c.logged = c.rejectedWith
        /\ c.pc # "rejected" => (c.rejectedWith = 0 /\ c.logged = 0)

C21_Witness ==
    \E j, k \in DOMAIN chains :
        /\ chains[j].pc = "rejected"
        /\ chains[j].attempts = 4
        /\ chains[j].logged = 4
        /\ chains[k].pc = "resolved"
        /\ chains[k].attempts = 2

\* The init promise cached for r is rejected.
CachedRejected(r) ==
    /\ containerInitPromises[r] # 0
    /\ initState[containerInitPromises[r]].state = "rejected"

\* The call made by this step, if it is a call for r: (0 when it is none)
NewCallFor(r) ==
    IF Len(received') > Len(received) /\ received'[Len(received')].remote = r
    THEN Len(received') ELSE 0

\* C22 as stated: once the init promise cached for a remote name is
\* rejected, it stays the cached promise and stays rejected, container.init
\* is not called again for that name, and every later call for that name
\* returns that rejection.
C22_EveryLaterCallSameRejection ==
    [][ \A r \in Remotes : CachedRejected(r) =>
            /\ containerInitPromises'[r] = containerInitPromises[r]
            /\ initState'[containerInitPromises[r]].state = "rejected"
            /\ initCalls'[r] = initCalls[r]
            /\ NewCallFor(r) # 0 =>
                  received'[NewCallFor(r)].follows = containerInitPromises[r]
      ]_vars

\* C22 amended: as above, for every later call that passes a valid
\* container; a later call without one is rejected with the error of the
\* container test instead.
C22_RejectionStaysCached ==
    [][ \A r \in Remotes : CachedRejected(r) =>
            /\ containerInitPromises'[r] = containerInitPromises[r]
            /\ initState'[containerInitPromises[r]].state = "rejected"
            /\ initCalls'[r] = initCalls[r]
            /\ initCalls[r] <= 1
            /\ NewCallFor(r) # 0 =>
                  IF received'[NewCallFor(r)].valid
                  THEN received'[NewCallFor(r)].follows = containerInitPromises[r]
                  ELSE received'[NewCallFor(r)].follows = 0
      ]_vars

C22_Witness ==
    \E r \in Remotes :
        /\ CachedRejected(r)
        /\ initCalls[r] = 1
        /\ \E i, j \in DOMAIN received :
              /\ i < j
              /\ received[i].remote = r /\ received[i].valid
              /\ received[i].seen = "none"
              /\ received[j].remote = r /\ received[j].valid
              /\ received[j].seen = "rejected"
              /\ received[j].follows = containerInitPromises[r]

\* C23: in a production build (NODE_ENV is 'production') the constructed
\* tracker has reset a persisted enabled flag to false, and no navbar click
\* is blocked or turned into a logical error.
C23_NoInjectionInProduction ==
    (nodeEnv = "production" /\ constructed) =>
        /\ (storageMode = "ok" => storedFailMode # "true")
        /\ lastClick # "blocked"

\* ========================================================== wishlist claims
NoDuplicateIds(items) ==
    \A i, j \in DOMAIN items : i # j => items[i].id # items[j].id

\* The list after addToWishlist(product) is called on the list prev and rendered.
AddOutcome(prev, product) ==
    IF AddAccepted(product) THEN AddUpdater(prev, product) ELSE prev

\* C24 as stated: the wishlist never holds two items of one id; adding a
\* product whose id is present leaves the list as it is; adding a product
\* whose id is defined and absent puts it first.
C24_AddDefinedIdBecomesFirst ==
    /\ NoDuplicateIds(provider.wishlistItems)
    /\ \A p \in Products :
          LET prev == provider.wishlistItems IN
          /\ HasId(prev, p.id) => AddOutcome(prev, p) = prev
          /\ (p.id # Null /\ ~HasId(prev, p.id)) => AddOutcome(prev, p) = <<p>> \o prev

\* What the provider does keep: no two items of one id, a present id is left
\* alone, a product whose id is truthy and absent is put first, and a product
\* whose id is undefined or 0 is ignored.
WishlistAddsTruthyIds ==
    /\ NoDuplicateIds(provider.wishlistItems)
    /\ \A p \in Products :
          LET prev == provider.wishlistItems IN
          /\ HasId(prev, p.id) => AddOutcome(prev, p) = prev
          /\ (p.id # Null /\ p.id # 0 /\ ~HasId(prev, p.id)) =>
                AddOutcome(prev, p) = <<p>> \o prev
          /\ (p.id = Null \/ p.id = 0) => AddOutcome(prev, p) = prev

\* C25: setItem is never called by a render whose loading is true; as long
\* as the page has made no wishlist call, a stored array is what the earlier
\* session left, and once mounting is complete the wishlist in memory equals
\* it too, with or without React.StrictMode.
C25_SavedWishlistSurvivesMount ==
    /\ ~provider.earlyWrite
    /\ (provider.saved0.kind = "array" /\ provider.ops = 0) =>
          /\ provider.stored = provider.saved0
          /\ provider.pc = "idle" =>
                /\ provider.wishlistItems = provider.saved0.items
                /\ provider.loading = FALSE

C25_Witness ==
    /\ provider.pc = "idle"
    /\ provider.strict
    /\ ~provider.writeThrows
    /\ provider.ops = 0
    /\ provider.saved0 = ArrayOf(<<Product(2, "a"), Product(1, "b")>>)
    /\ provider.wishlistItems = <<Product(2, "a"), Product(1, "b")>>
    /\ provider.stored = provider.saved0

\* ============================================================== mock API claim
EchoAnswered ==
    /\ echo.pc = "listening"
    /\ echo.method = "POST"
    /\ echo.path = "/api/echo"
    /\ echo.status # 0

\* C26: a POST /api/echo whose body is valid JSON of at most 1,000,000 bytes
\* is answered with status 200 and {received: the parsed body}; status 400 is
\* answered only to a body that is not valid JSON (invalid_json) or that is
\* over the size limit (body_too_large).
C26_EchoRoundTrips ==
    EchoAnswered =>
      LET valid == echo.chunks # <<>> /\ IsValidJson(echo.text)
          size == SumSeq(echo.chunks) IN
      /\ (valid /\ size <= MaxBytes) =>
            /\ echo.status = 200
            /\ echo.reply = [key |-> "received", error |-> "",
                             received |-> JsonParse(echo.text).value]
      /\ echo.status = 400 =>
            \/ ~valid /\ echo.reply.error = "invalid_json"
            \/ size > MaxBytes /\ echo.reply.error = "body_too_large"

\* What the stub does keep: C26 for the bodies that hold neither an object
\* with a truthy __error property nor a number beyond the double range.
EchoRoundTripsPlainBodies ==
    (EchoAnswered /\ echo.text \notin {"{\"__error\":\"boom\"}", "1e999"}) =>
      C26_EchoRoundTrips

====
